---- MODULE Spec2Model ----
(***************************************************************************)
(* Model of logging_gke (src/logging_gke/__init__.py): the                 *)
(* CloudLoggingFilter that enriches a LogRecord and the                    *)
(* StructuredLogHandler that renders it through GCP_FORMAT into one line   *)
(* per record, together with the module-level installation of the handler  *)
(* on the root logger.                                                     *)
(*                                                                         *)
(* Text is modelled character by character (a Python str is a sequence of  *)
(* one-character strings), so that json.dumps, the %-template and a JSON   *)
(* reader are separate computations whose agreement is checked, not        *)
(* assumed.                                                                *)
(***************************************************************************)
EXTENDS Integers, Sequences, FiniteSets, TLC

VARIABLES
  loaded,     \* the module body (line 134) has run
  prior,      \* the root logger's handler list before the module ran
  handlers,   \* the root logger's handler list
  ctor,       \* the arguments the installed StructuredLogHandler was built with
  call,       \* the LogRecord as the log call made it
  rec,        \* the same LogRecord as the handler has changed it since
  pc,         \* idle, or where the record is: created, filtered, emitted, error
  trail,      \* the stages the record went through, in order
  line,       \* what the handler wrote to its stream for this record
  nRecords    \* how many records were logged so far

vars ==
  <<loaded, prior, handlers, ctor, call, rec, pc, trail, line, nRecords>>

(***************************************************************************)
(* Bounds of the model.                                                    *)
(***************************************************************************)
MaxRecords == 2
MaxFilterRuns == 2

(***************************************************************************)
(* Characters that matter to JSON.                                         *)
(***************************************************************************)
QUOTE == "\""
BSL == "\\"
NL == "\n"

(***************************************************************************)
(* Python values.  Every value has the same four fields so that any two    *)
(* can be compared: t is the type, s the characters of a str, n the        *)
(* number of an int, o the items of a dict in insertion order, each item   *)
(* a pair <<key characters, value>>.  Absent marks an attribute the        *)
(* record does not have (getattr falls back, hasattr is False).            *)
(***************************************************************************)
Val(t, s, n, o) == [t |-> t, s |-> s, n |-> n, o |-> o]
Absent == Val("absent", <<>>, 0, <<>>)
None == Val("none", <<>>, 0, <<>>)
Str(cs) == Val("str", cs, 0, <<>>)
PyInt(k) == Val("int", <<>>, k, <<>>)
Dict(items) == Val("dict", <<>>, 0, items)
ExcInfo == Val("exc", <<>>, 0, <<>>)

\* bool(v)
Truthy(v) ==
  CASE v.t = "str" -> v.s # <<>>
    [] v.t = "int" -> v.n # 0
    [] v.t = "dict" -> v.o # <<>>
    [] v.t = "exc" -> TRUE
    [] OTHER -> FALSE

\* a or b
Or(a, b) == IF Truthy(a) THEN a ELSE b

getattr(record, name, default) ==
  IF record[name] = Absent THEN default ELSE record[name]

hasattr(record, name) == record[name] # Absent

DigitChars == <<"0", "1", "2", "3", "4", "5", "6", "7", "8", "9">>

RECURSIVE Digits(_)
Digits(k) ==
  IF k < 10 THEN <<DigitChars[k + 1]>>
  ELSE Digits(k \div 10) \o <<DigitChars[(k % 10) + 1]>>

NoneText ==
  <<"N","o","n","e">>
NullText ==
  <<"n","u","l","l">>

\* str(v)
PyStr(v) ==
  CASE v.t = "str" -> v.s
    [] v.t = "int" -> Digits(v.n)
    [] v.t = "none" -> NoneText
    [] OTHER -> <<"?">>

DictKeys(d) == {d.o[i][1] : i \in DOMAIN d.o}

DictHas(d, k) == k \in DictKeys(d)

DictGet(d, k) == d.o[CHOOSE i \in DOMAIN d.o : d.o[i][1] = k][2]

\* d[k] = v on the items of a dict: an existing key keeps its place
DictSet(items, k, v) ==
  IF \E i \in DOMAIN items : items[i][1] = k
  THEN [i \in DOMAIN items |-> IF items[i][1] = k THEN <<k, v>> ELSE items[i]]
  ELSE Append(items, <<k, v>>)

RECURSIVE UpdateItems(_, _)
UpdateItems(items, more) ==
  IF more = <<>> THEN items
  ELSE UpdateItems(DictSet(items, more[1][1], more[1][2]), Tail(more))

\* {**a, **b}
DictMerge(a, b) == Dict(UpdateItems(a.o, b.o))

(***************************************************************************)
(* json.dumps with its default separators, for the values the filter       *)
(* serializes: None, int, str, and dict with str keys.                     *)
(***************************************************************************)
EscapeChar(c) ==
  CASE c = QUOTE -> <<BSL, QUOTE>>
    [] c = BSL -> <<BSL, BSL>>
    [] c = NL -> <<BSL, "n">>
    [] OTHER -> <<c>>

RECURSIVE EscapeStr(_)
EscapeStr(cs) ==
  IF cs = <<>> THEN <<>> ELSE EscapeChar(Head(cs)) \o EscapeStr(Tail(cs))

RECURSIVE Dumps(_), DumpsItems(_)
Dumps(v) ==
  CASE v.t = "none" -> NullText
    [] v.t = "int" -> Digits(v.n)
    [] v.t = "str" -> <<QUOTE>> \o EscapeStr(v.s) \o <<QUOTE>>
    [] v.t = "dict" -> <<"{">> \o DumpsItems(v.o) \o <<"}">>

DumpsItems(items) ==
  IF items = <<>> THEN <<>>
  ELSE <<QUOTE>> \o EscapeStr(items[1][1]) \o <<QUOTE, ":", " ">>
       \o Dumps(items[1][2])
       \o (IF Len(items) > 1 THEN <<",", " ">> \o DumpsItems(Tail(items))
           ELSE <<>>)

(***************************************************************************)
(* GCP_FORMAT (lines 6-14): the %-template as its literal pieces and the   *)
(* record attributes substituted between them.                             *)
(***************************************************************************)
SegMessage ==
  <<"{",QUOTE,"m","e","s","s","a","g","e",QUOTE,":"," ">>

SegSeverity ==
  <<","," ",QUOTE,"s","e","v","e","r","i","t","y",QUOTE,":"," ",QUOTE>>

SegLabels ==
  <<QUOTE,","," ",QUOTE,"l","o","g","g","i","n","g",".","g","o","o","g","l",
    "e","a","p","i","s",".","c","o","m","/","l","a","b","e","l","s",QUOTE,
    ":"," ">>

SegTrace ==
  <<","," ",QUOTE,"l","o","g","g","i","n","g",".","g","o","o","g","l","e",
    "a","p","i","s",".","c","o","m","/","t","r","a","c","e",QUOTE,":"," ",
    QUOTE>>

SegSpanId ==
  <<QUOTE,","," ",QUOTE,"l","o","g","g","i","n","g",".","g","o","o","g","l",
    "e","a","p","i","s",".","c","o","m","/","s","p","a","n","I","d",QUOTE,
    ":"," ",QUOTE>>

SegSourceLocation ==
  <<QUOTE,","," ",QUOTE,"l","o","g","g","i","n","g",".","g","o","o","g","l",
    "e","a","p","i","s",".","c","o","m","/","s","o","u","r","c","e","L","o",
    "c","a","t","i","o","n",QUOTE,":"," ">>

SegHttpRequest ==
  <<","," ",QUOTE,"h","t","t","p","R","e","q","u","e","s","t",QUOTE,":"," ">>

SegEnd ==
  <<" ","}">>

Lit(cs) == [lit |-> cs, fld |-> ""]
Fld(name) == [lit |-> <<>>, fld |-> name]

GCP_FORMAT ==
  << Lit(SegMessage), Fld("_formatted_msg"),
     Lit(SegSeverity), Fld("levelname"),
     Lit(SegLabels), Fld("_labels_str"),
     Lit(SegTrace), Fld("_trace_str"),
     Lit(SegSpanId), Fld("_span_id_str"),
     Lit(SegSourceLocation), Fld("_source_location_str"),
     Lit(SegHttpRequest), Fld("_http_request_str"),
     Lit(SegEnd) >>

\* logging's default formatter, used by Handler.format when the handler has
\* no formatter of its own: "%(message)s"
DefaultFormat == <<Fld("message")>>

(***************************************************************************)
(* CloudLoggingFilter                                                      *)
(***************************************************************************)
RequestMethod ==
  <<"r","e","q","u","e","s","t","M","e","t","h","o","d">>

RequestUrl ==
  <<"r","e","q","u","e","s","t","U","r","l">>

UserAgent ==
  <<"u","s","e","r","A","g","e","n","t">>

Protocol ==
  <<"p","r","o","t","o","c","o","l">>

_supported_http_fields == {RequestMethod, RequestUrl, UserAgent, Protocol}

\* CloudLoggingFilter.__init__
CloudLoggingFilter(project, default_labels) ==
  [ project |-> project,
    default_labels |-> IF Truthy(default_labels) THEN default_labels
                       ELSE Dict(<<>>) ]

LineKey == <<"l", "i", "n", "e">>

FileKey == <<"f", "i", "l", "e">>

FunctionKey == <<"f", "u", "n", "c", "t", "i", "o", "n">>

\* a field counts as set when it is truthy
_infer_source_location_truthy(record) ==
  IF hasattr(record, "source_location") THEN record.source_location
  ELSE LET line_ == getattr(record, "lineno", None)
           file_ == getattr(record, "pathname", None)
           func_ == getattr(record, "funcName", None)
           output ==
             (IF Truthy(line_) THEN << <<LineKey, line_>> >> ELSE <<>>)
             \o (IF Truthy(file_) THEN << <<FileKey, file_>> >> ELSE <<>>)
             \o (IF Truthy(func_) THEN << <<FunctionKey, func_>> >> ELSE <<>>)
       IN IF output # <<>> THEN Dict(output) ELSE None

_infer_source_location(record) ==
  IF hasattr(record, "source_location") THEN record.source_location
  ELSE LET line_ == getattr(record, "lineno", None)
           file_ == getattr(record, "pathname", None)
           func_ == getattr(record, "funcName", None)
           output ==
             (IF line_ # None THEN << <<LineKey, line_>> >>
              ELSE <<>>)
             \o (IF file_ # None THEN << <<FileKey, file_>> >>
                 ELSE <<>>)
             \o (IF func_ # None
                 THEN << <<FunctionKey, func_>> >>
                 ELSE <<>>)
       IN IF output # <<>> THEN Dict(output) ELSE None

\* line 60: nothing is inferred from the environment
InferredRequestData == [http |-> None, trace |-> None, span |-> None]

\* lines 61-67: the inferred http request keeps only the supported fields
\* that are not None
SupportedHttpFields(inferred_http) ==
  IF inferred_http # None
  THEN Dict(SelectSeq(inferred_http.o,
                      LAMBDA kv : kv[1] \in _supported_http_fields
                                  /\ kv[2] # None))
  ELSE inferred_http

TracePrefix ==
  <<"p","r","o","j","e","c","t","s","/">>

TraceInfix ==
  <<"/","t","r","a","c","e","s","/">>

\* lines 68-70: the inferred trace gets its full path
FullTracePath(inferred_trace, project) ==
  IF inferred_trace # None /\ project # None
  THEN Str(TracePrefix \o PyStr(project) \o TraceInfix
           \o PyStr(inferred_trace))
  ELSE inferred_trace

\* the override is ignored and only the inferred trace is used
TraceInferredOnly(record, inferred_trace) == Or(inferred_trace, None)

\* line 73
TraceOf(record, inferred_trace) ==
  Or(getattr(record, "trace", inferred_trace), None)

\* the supported-field filter is applied to the caller's value as well
HttpRequestFiltered(record, inferred_http) ==
  SupportedHttpFields(getattr(record, "http_request", inferred_http))

\* line 75
HttpRequestOf(record, inferred_http) ==
  getattr(record, "http_request", inferred_http)

\* the defaults are merged over the record's labels
MergeLabelsDefaultsWin(self, record) ==
  LET user_labels == getattr(record, "labels", Dict(<<>>)) IN
  [ self |-> self,
    labels |-> Or(DictMerge(user_labels, self.default_labels), None) ]

\* the record's labels are merged into the filter's own dict
MergeLabelsInPlace(self, record) ==
  LET user_labels == getattr(record, "labels", Dict(<<>>))
      updated == DictMerge(self.default_labels, user_labels)
  IN [ self |-> [self EXCEPT !.default_labels = updated],
       labels |-> Or(updated, None) ]

\* lines 58 and 77: the merge builds a new dict; the filter's own default
\* labels stay as they were
MergeLabels(self, record) ==
  LET user_labels == getattr(record, "labels", Dict(<<>>)) IN
  [ self |-> self,
    labels |-> Or(DictMerge(self.default_labels, user_labels), None) ]

\* str.replace('"', '\\"')
RECURSIVE ReplaceQuotes(_)
ReplaceQuotes(cs) ==
  IF cs = <<>> THEN <<>>
  ELSE (IF Head(cs) = QUOTE THEN <<BSL, QUOTE>> ELSE <<Head(cs)>>)
       \o ReplaceQuotes(Tail(cs))

\* the quotes are escaped in the attribute the last run left
MsgStrInPlace(record) ==
  LET text == getattr(record, "_msg_str", record.msg) IN
  IF Truthy(record.msg) THEN Str(ReplaceQuotes(PyStr(text))) ELSE Str(<<>>)

\* line 85
MsgStrOf(record) ==
  IF Truthy(record.msg) THEN Str(ReplaceQuotes(PyStr(record.msg)))
  ELSE Str(<<>>)

\* CloudLoggingFilter.filter: the filter object and the record after the
\* call, and the value returned
CloudLoggingFilter_filter(self, record) ==
  LET inferred == InferredRequestData
      inferred_http == SupportedHttpFields(inferred.http)
      inferred_trace == FullTracePath(inferred.trace, self.project)
      inferred_span == inferred.span
      merged == MergeLabels(self, record)
      r1 == [record EXCEPT
               !._resource = getattr(record, "resource", None),
               !._trace = TraceOf(record, inferred_trace),
               !._span_id = Or(getattr(record, "span_id", inferred_span), None),
               !._http_request = HttpRequestOf(record, inferred_http),
               !._source_location = _infer_source_location(record),
               !._labels = merged.labels]
      r2 == [r1 EXCEPT
               !._trace_str = Or(r1._trace, Str(<<>>)),
               !._span_id_str = Or(r1._span_id, Str(<<>>)),
               !._http_request_str = Str(Dumps(Or(r1._http_request, Dict(<<>>)))),
               !._source_location_str =
                  Str(Dumps(Or(r1._source_location, Dict(<<>>)))),
               !._labels_str = Str(Dumps(Or(r1._labels, Dict(<<>>)))),
               !._msg_str = MsgStrOf(record)]
  IN [self |-> merged.self, record |-> r2, rv |-> TRUE]

(***************************************************************************)
(* logging.Formatter.format, as StructuredLogHandler.format uses it        *)
(***************************************************************************)
Result(ok, s, record) == [ok |-> ok, s |-> s, record |-> record]

\* msg % args for the %s and %% conversions; any other use of % in the
\* model's texts is an error, as is a wrong number of arguments
RECURSIVE Interpolate(_, _, _)
Interpolate(cs, args, acc) ==
  CASE cs = <<>> -> [ok |-> args = <<>>, s |-> acc]
    [] cs # <<>> /\ Head(cs) # "%" ->
         Interpolate(Tail(cs), args, Append(acc, Head(cs)))
    [] Len(cs) >= 2 /\ Head(cs) = "%" /\ cs[2] = "%" ->
         Interpolate(Tail(Tail(cs)), args, Append(acc, "%"))
    [] Len(cs) >= 2 /\ Head(cs) = "%" /\ cs[2] = "s" /\ args # <<>> ->
         Interpolate(Tail(Tail(cs)), Tail(args), acc \o PyStr(Head(args)))
    [] OTHER -> [ok |-> FALSE, s |-> acc]

\* LogRecord.getMessage
getMessage(record) ==
  IF record.args # <<>> THEN Interpolate(PyStr(record.msg), record.args, <<>>)
  ELSE [ok |-> TRUE, s |-> PyStr(record.msg)]

\* fmt % record.__dict__: a KeyError when an attribute is missing
RECURSIVE formatMessage(_, _)
formatMessage(fmt, record) ==
  IF fmt = <<>> THEN [ok |-> TRUE, s |-> <<>>]
  ELSE LET rest == formatMessage(Tail(fmt), record)
           part == Head(fmt)
       IN IF part.fld = "" THEN [ok |-> rest.ok, s |-> part.lit \o rest.s]
          ELSE IF ~hasattr(record, part.fld) THEN [ok |-> FALSE, s |-> <<>>]
          ELSE [ok |-> rest.ok, s |-> PyStr(record[part.fld]) \o rest.s]

\* Formatter.formatException: the traceback text
formatException(exc_info) == Str(<<"X">>)

WithNewline(s) == IF s # <<>> /\ s[Len(s)] = NL THEN s ELSE Append(s, NL)

Formatter_format(fmt, record) ==
  LET gm == getMessage(record)
      r1 == [record EXCEPT !.message = Str(gm.s)]
      fm == formatMessage(fmt, r1)
      r2 == IF Truthy(r1.exc_info) /\ ~Truthy(r1.exc_text)
            THEN [r1 EXCEPT !.exc_text = formatException(r1.exc_info)]
            ELSE r1
      s1 == IF Truthy(r2.exc_text) THEN WithNewline(fm.s) \o PyStr(r2.exc_text)
            ELSE fm.s
      s2 == IF Truthy(r2.stack_info)
            THEN WithNewline(s1) \o PyStr(r2.stack_info)
            ELSE s1
  IN IF ~gm.ok THEN Result(FALSE, <<>>, record)
     ELSE IF ~fm.ok THEN Result(FALSE, <<>>, r1)
     ELSE Result(TRUE, s2, r2)

(***************************************************************************)
(* StructuredLogHandler                                                    *)
(***************************************************************************)
\* StructuredLogHandler.__init__
StructuredLogHandler(labels, project_id) ==
  [ cls |-> "StructuredLogHandler",
    project_id |-> project_id,
    filters |-> <<CloudLoggingFilter(project_id, labels)>>,
    _gcp_formatter |-> GCP_FORMAT ]

\* a handler of another class that the root logger held before
OtherHandler(cls) ==
  [ cls |-> cls, project_id |-> Absent, filters |-> <<>>,
    _gcp_formatter |-> <<>> ]

\* the exception information is left on the record
WithFormattedMsgOnly(record, super_payload) ==
  [record EXCEPT !._formatted_msg = Str(Dumps(Or(super_payload, Str(<<>>))))]

\* lines 123-127: the message field and the cleared exception information
WithFormattedMsg(record, super_payload) ==
  [record EXCEPT !._formatted_msg = Str(Dumps(Or(super_payload, Str(<<>>)))),
                 !.exc_info = None,
                 !.exc_text = None]

\* the message is rendered unless it is None
HasMsgNotNone(record) == record.msg # None

\* line 120: if record.msg
HasMsg(record) == Truthy(record.msg)

\* StructuredLogHandler.format: ok is FALSE when a formatter raised
StructuredLogHandler_format(self, record) ==
  LET super_ == IF HasMsg(record) THEN Formatter_format(DefaultFormat, record)
                ELSE Result(TRUE, <<>>, record)
      super_payload == IF HasMsg(record) THEN Str(super_.s) ELSE None
      r1 == WithFormattedMsg(super_.record, super_payload)
      gcp_payload == Formatter_format(self._gcp_formatter, r1)
  IN IF ~super_.ok THEN super_ ELSE gcp_payload

\* the handler is added to the ones the root logger holds
InstalledByAppending(before) ==
  Append(before, StructuredLogHandler(None, None))

\* line 134: the handler list the module gives the root logger
InstalledHandlers(before) == <<StructuredLogHandler(None, None)>>

(***************************************************************************)
(* The records and constructor arguments the model draws from.             *)
(***************************************************************************)
INFO ==
  <<"I","N","F","O">>

ERROR ==
  <<"E","R","R","O","R">>

GET ==
  <<"G","E","T">>

Foo ==
  <<"f","o","o">>

Bar ==
  <<"b","a","r">>

\* a LogRecord as logging creates it: no override attribute, nothing derived
BaseRecord ==
  [ msg |-> Str(<<"a">>), args |-> <<>>, levelname |-> Str(INFO),
    lineno |-> PyInt(7), pathname |-> Str(<<"p">>), funcName |-> Str(<<"f">>),
    exc_info |-> None, exc_text |-> None, stack_info |-> None,
    labels |-> Absent, trace |-> Absent, span_id |-> Absent,
    http_request |-> Absent, source_location |-> Absent, resource |-> Absent,
    message |-> Absent,
    _resource |-> Absent, _trace |-> Absent, _span_id |-> Absent,
    _http_request |-> Absent, _source_location |-> Absent, _labels |-> Absent,
    _trace_str |-> Absent, _span_id_str |-> Absent,
    _http_request_str |-> Absent, _source_location_str |-> Absent,
    _labels_str |-> Absent, _msg_str |-> Absent, _formatted_msg |-> Absent ]

NoRecord == [BaseRecord EXCEPT !.msg = Absent, !.levelname = Absent]

MsgChoices ==
  { Str(<<>>), Str(<<"a">>), Str(<<QUOTE>>), Str(<<BSL>>), Str(<<NL>>),
    Str(<<"%", "s">>), None, PyInt(0), PyInt(7) }

ArgsChoices == { <<>>, <<Str(<<"x">>)>> }

\* <<exc_info, exc_text>>: no exception, one not yet rendered, one whose
\* text an earlier formatter cached on the record
ExcChoices == { <<None, None>>, <<ExcInfo, None>>, <<ExcInfo, Str(<<"X">>)>> }

StackChoices == { None, Str(<<"S">>) }

LevelChoices == { Str(INFO), Str(ERROR) }

TraceChoices ==
  { Absent, None, Str(<<>>), Str(<<"t">>), Str(<<QUOTE>>), Str(<<BSL>>),
    Str(<<NL>>), Str(<<BSL, QUOTE>>) }

SpanChoices == { Absent, Str(<<"s">>), Str(<<QUOTE>>) }

LabelChoices ==
  { Absent, Dict(<<>>),
    Dict(<< <<(<<"a">>), Str(<<"1">>)>> >>),
    Dict(<< <<(<<"b">>), Str(<<"9">>)>> >>),
    Dict(<< <<(<<"a">>), Str(<<QUOTE>>)>>, <<(<<"b">>), Str(<<"9">>)>> >>) }

HttpChoices ==
  { Absent, None, Dict(<<>>),
    Dict(<< <<Foo, Str(Bar)>>, <<RequestMethod, Str(GET)>> >>),
    Dict(<< <<RequestMethod, Str(GET)>>, <<Protocol, None>> >>) }

SourceLocationChoices ==
  { Absent, None, Dict(<<>>), Dict(<< <<FileKey, Str(<<"x">>)>> >>) }

\* <<lineno, pathname, funcName>>
FieldChoices ==
  { <<PyInt(7), Str(<<"p">>), Str(<<"f">>)>>, <<None, None, None>>,
    <<None, Str(<<"p">>), None>>, <<PyInt(0), None, None>> }

ResourceChoices == { Absent, Str(<<"r">>) }

MsgRecords ==
  { [BaseRecord EXCEPT !.msg = m, !.args = a, !.exc_info = e[1],
                       !.exc_text = e[2], !.stack_info = s, !.levelname = l] :
      m \in MsgChoices, a \in ArgsChoices, e \in ExcChoices,
      s \in StackChoices, l \in LevelChoices }

TraceRecords ==
  { [BaseRecord EXCEPT !.msg = m, !.trace = t, !.span_id = s] :
      m \in {Str(<<>>), Str(<<"a">>)}, t \in TraceChoices, s \in SpanChoices }

LabelRecords ==
  { [BaseRecord EXCEPT !.labels = l, !.http_request = h] :
      l \in LabelChoices, h \in HttpChoices }

SourceRecords ==
  { [BaseRecord EXCEPT !.source_location = o, !.lineno = f[1],
                       !.pathname = f[2], !.funcName = f[3], !.resource = r] :
      o \in SourceLocationChoices, f \in FieldChoices, r \in ResourceChoices }

Records == MsgRecords \cup TraceRecords \cup LabelRecords \cup SourceRecords

LabelArgs == { None, Dict(<<>>), Dict(<< <<(<<"b">>), Str(<<"2">>)>> >>) }

ProjectArgs == { None, Str(<<"p">>) }

PriorHandlerLists ==
  { <<>>, <<OtherHandler("StreamHandler")>>,
    <<OtherHandler("StreamHandler"), OtherHandler("FileHandler")>> }

NoCtor == [labels |-> Absent, project_id |-> Absent]

(***************************************************************************)
(* The state machine: the module is loaded, then each log call makes a     *)
(* record that Handler.handle takes through the handler's filters and      *)
(* StreamHandler.emit through format and the write.                        *)
(***************************************************************************)
Init ==
  /\ call = NoRecord
  /\ rec = NoRecord
  /\ pc = "idle"
  /\ trail = <<>>
  /\ line = <<>>
  /\ nRecords = 0
  /\ \/ /\ loaded = FALSE
        /\ prior \in PriorHandlerLists
        /\ handlers = prior
        /\ ctor = NoCtor
     \/ /\ loaded = TRUE
        /\ prior = <<>>
        /\ \E labels \in LabelArgs, project_id \in ProjectArgs :
             /\ ctor = [labels |-> labels, project_id |-> project_id]
             /\ handlers = <<StructuredLogHandler(labels, project_id)>>

\* line 134
LoadModule ==
  /\ ~loaded
  /\ loaded' = TRUE
  /\ handlers' = InstalledHandlers(handlers)
  /\ ctor' = [labels |-> None, project_id |-> None]
  /\ UNCHANGED <<prior, call, rec, pc, trail, line, nRecords>>

\* a log call reaches the logger: Logger.makeRecord
Log(record) ==
  /\ loaded
  /\ pc = "idle"
  /\ nRecords < MaxRecords
  /\ call' = record
  /\ rec' = record
  /\ pc' = "created"
  /\ trail' = <<>>
  /\ line' = <<>>
  /\ nRecords' = nRecords + 1
  /\ UNCHANGED <<loaded, prior, handlers, ctor>>

\* Filterer.filter: every filter of the handler, in order
RECURSIVE RunFilters(_, _)
RunFilters(filters, record) ==
  IF filters = <<>> THEN [filters |-> <<>>, record |-> record, rv |-> TRUE]
  ELSE LET one == CloudLoggingFilter_filter(Head(filters), record)
           rest == RunFilters(Tail(filters), one.record)
       IN IF ~one.rv
          THEN [filters |-> <<one.self>> \o Tail(filters),
                record |-> one.record, rv |-> FALSE]
          ELSE [filters |-> <<one.self>> \o rest.filters,
                record |-> rest.record, rv |-> rest.rv]

FilterRuns == Len(SelectSeq(trail, LAMBDA x : x = "filter"))

ApplyFilters ==
  LET f == RunFilters(handlers[1].filters, rec) IN
  /\ handlers' = [handlers EXCEPT ![1].filters = f.filters]
  /\ rec' = f.record
  /\ trail' = trail \o [i \in 1..Len(handlers[1].filters) |-> "filter"]
  /\ UNCHANGED <<loaded, prior, ctor, call, line, nRecords>>

\* Handler.handle, first half: the record passes the handler's filters
Filter ==
  /\ pc = "created"
  /\ handlers # <<>>
  /\ ApplyFilters
  /\ pc' = "filtered"

\* the filter runs once more on the record it already enriched
FilterAgain ==
  /\ pc = "filtered"
  /\ FilterRuns < MaxFilterRuns
  /\ ApplyFilters
  /\ pc' = "filtered"

Handler_format(self, record) ==
  IF self.cls = "StructuredLogHandler"
  THEN StructuredLogHandler_format(self, record)
  ELSE Formatter_format(DefaultFormat, record)

\* StreamHandler.emit: format, then write the text and the terminator; an
\* exception raised by format goes to handleError and nothing is written
Emit ==
  /\ pc = "filtered"
  /\ LET r == Handler_format(handlers[1], rec) IN
       /\ rec' = r.record
       /\ IF r.ok
          THEN /\ line' = Append(r.s, NL)
               /\ pc' = "emitted"
               /\ trail' = trail \o <<"format", "write">>
          ELSE /\ line' = line
               /\ pc' = "error"
               /\ trail' = Append(trail, "format")
  /\ UNCHANGED <<loaded, prior, handlers, ctor, call, nRecords>>

\* Handler.handle returns and the log call with it: the record is discarded
Return ==
  /\ pc \in {"emitted", "error"}
  /\ call' = NoRecord
  /\ rec' = NoRecord
  /\ pc' = "idle"
  /\ trail' = <<>>
  /\ line' = <<>>
  /\ UNCHANGED <<loaded, prior, handlers, ctor, nRecords>>

Next ==
  \/ LoadModule
  \/ \E record \in Records : Log(record)
  \/ Filter
  \/ FilterAgain
  \/ Emit
  \/ Return

Spec == Init /\ [][Next]_vars

(***************************************************************************)
(* Reading the stream: what the line written for the record holds.         *)
(***************************************************************************)
KeyMessage ==
  <<"m","e","s","s","a","g","e">>

KeySeverity ==
  <<"s","e","v","e","r","i","t","y">>

KeyLabels ==
  <<"l","o","g","g","i","n","g",".","g","o","o","g","l","e","a","p","i","s",
    ".","c","o","m","/","l","a","b","e","l","s">>

KeyTrace ==
  <<"l","o","g","g","i","n","g",".","g","o","o","g","l","e","a","p","i","s",
    ".","c","o","m","/","t","r","a","c","e">>

KeySpanId ==
  <<"l","o","g","g","i","n","g",".","g","o","o","g","l","e","a","p","i","s",
    ".","c","o","m","/","s","p","a","n","I","d">>

KeySourceLocation ==
  <<"l","o","g","g","i","n","g",".","g","o","o","g","l","e","a","p","i","s",
    ".","c","o","m","/","s","o","u","r","c","e","L","o","c","a","t","i","o",
    "n">>

KeyHttpRequest ==
  <<"h","t","t","p","R","e","q","u","e","s","t">>

SevenKeys ==
  { KeyMessage, KeySeverity, KeyLabels, KeyTrace, KeySpanId,
    KeySourceLocation, KeyHttpRequest }

(***************************************************************************)
(* json.loads, for the values json.dumps writes: what a reader makes of     *)
(* a line.  A result is [ok, v, next]; a dict that fails part way keeps    *)
(* in v the members read before the failure.  Escapes \b and \uXXXX do     *)
(* not occur in any text of the model and are rejected.                    *)
(***************************************************************************)
At(cs, i) == IF i \in 1..Len(cs) THEN cs[i] ELSE ""

IsWs(c) == c \in {" ", NL, "\t", "\r"}

IsDigit(c) == \E d \in DOMAIN DigitChars : DigitChars[d] = c

DigitValue(c) == (CHOOSE d \in DOMAIN DigitChars : DigitChars[d] = c) - 1

RECURSIVE SkipWs(_, _)
SkipWs(cs, i) == IF IsWs(At(cs, i)) THEN SkipWs(cs, i + 1) ELSE i

Parsed(ok, v, next) == [ok |-> ok, v |-> v, next |-> next]

Unescape(c) ==
  CASE c = QUOTE -> QUOTE
    [] c = BSL -> BSL
    [] c = "/" -> "/"
    [] c = "n" -> NL
    [] c = "t" -> "\t"
    [] c = "r" -> "\r"
    [] c = "f" -> "\f"
    [] OTHER -> ""

\* the characters of a string literal, from the one after its opening quote
RECURSIVE ParseStr(_, _, _)
ParseStr(cs, i, acc) ==
  LET c == At(cs, i) IN
  CASE c = "" -> Parsed(FALSE, None, i)
    [] c = QUOTE -> Parsed(TRUE, Str(acc), i + 1)
    [] c = BSL ->
         IF Unescape(At(cs, i + 1)) = "" THEN Parsed(FALSE, None, i)
         ELSE ParseStr(cs, i + 2, Append(acc, Unescape(At(cs, i + 1))))
    [] c \in {NL, "\t", "\r", "\f"} -> Parsed(FALSE, None, i)
    [] OTHER -> ParseStr(cs, i + 1, Append(acc, c))

RECURSIVE ParseInt(_, _, _)
ParseInt(cs, i, acc) ==
  IF IsDigit(At(cs, i)) THEN ParseInt(cs, i + 1, 10 * acc + DigitValue(cs[i]))
  ELSE Parsed(TRUE, PyInt(acc), i)

RECURSIVE ParseValue(_, _), ParseMembers(_, _, _)
ParseValue(cs, i) ==
  LET c == At(cs, i) IN
  CASE c = QUOTE -> ParseStr(cs, i + 1, <<>>)
    [] c = "{" ->
         IF At(cs, SkipWs(cs, i + 1)) = "}"
         THEN Parsed(TRUE, Dict(<<>>), SkipWs(cs, i + 1) + 1)
         ELSE ParseMembers(cs, i + 1, <<>>)
    [] c = "n" ->
         IF /\ i + 3 <= Len(cs)
            /\ SubSeq(cs, i, i + 3) = NullText
         THEN Parsed(TRUE, None, i + 4)
         ELSE Parsed(FALSE, None, i)
    [] c # "" /\ IsDigit(c) -> ParseInt(cs, i, 0)
    [] OTHER -> Parsed(FALSE, None, i)

\* the members of an object, from the position after "{" or after ","
ParseMembers(cs, i, acc) ==
  LET j == SkipWs(cs, i)
      key == ParseStr(cs, j + 1, <<>>)
      k == SkipWs(cs, key.next)
      val == ParseValue(cs, SkipWs(cs, k + 1))
      m == SkipWs(cs, val.next)
      got == DictSet(acc, key.v.s, val.v)
  IN
  IF At(cs, j) # QUOTE \/ ~key.ok \/ At(cs, k) # ":" \/ ~val.ok
  THEN Parsed(FALSE, Dict(acc), j)
  ELSE CASE At(cs, m) = "," -> ParseMembers(cs, m + 1, got)
         [] At(cs, m) = "}" -> Parsed(TRUE, Dict(got), m + 1)
         [] OTHER -> Parsed(FALSE, Dict(got), m)

\* json.loads(text): one value with nothing but white space around it
Loads(cs) ==
  LET r == ParseValue(cs, SkipWs(cs, 1)) IN
  IF r.ok /\ SkipWs(cs, r.next) = Len(cs) + 1 THEN r
  ELSE Parsed(FALSE, r.v, r.next)

\* the first position from i on where pat occurs in cs, 0 when there is none
FindSeq(cs, pat, i) ==
  LET hits == {j \in i..(Len(cs) - Len(pat) + 1) :
                 SubSeq(cs, j, j + Len(pat) - 1) = pat}
  IN IF hits = {} THEN 0 ELSE CHOOSE j \in hits : \A k \in hits : j <= k

\* the members a JSON reader gets from the start of the text, up to the
\* first one it cannot read
MembersOf(text) == ParseValue(text, 1).v.o

\* the JSON value that follows the first occurrence of a template piece
ValueAfter(text, seg) ==
  LET a == FindSeq(text, seg, 1) IN
  IF a = 0 THEN Parsed(FALSE, None, 0) ELSE ParseValue(text, a + Len(seg))

\* the raw characters between the quotes the template puts around the trace
TraceText(text) ==
  LET a == FindSeq(text, SegTrace, 1)
      b == FindSeq(text, SegSpanId, a + Len(SegTrace))
  IN IF a = 0 \/ b = 0 THEN Absent
     ELSE Str(SubSeq(text, a + Len(SegTrace), b - 1))

Count(cs, c) == Cardinality({i \in DOMAIN cs : cs[i] = c})

AsDict(v) == IF v.t = "dict" THEN v ELSE Dict(<<>>)

SameMapping(a, b) ==
  /\ a.t = "dict" /\ b.t = "dict"
  /\ DictKeys(a) = DictKeys(b)
  /\ \A k \in DictKeys(a) : DictGet(a, k) = DictGet(b, k)

\* out holds every key of either mapping, with own's value where both have it
IsUnionOwnWins(out, defaults, own) ==
  /\ out.t = "dict"
  /\ DictKeys(out) = DictKeys(defaults) \cup DictKeys(own)
  /\ \A k \in DictKeys(out) :
       DictGet(out, k) = IF DictHas(own, k) THEN DictGet(own, k)
                         ELSE DictGet(defaults, k)

LabelsMemberIsUnion(text, defaults, own) ==
  LET members == MembersOf(text) IN
  /\ Len(members) >= 3
  /\ members[3][1] = KeyLabels
  /\ IsUnionOwnWins(members[3][2], AsDict(defaults), AsDict(own))

Derived(r) ==
  << r._resource, r._trace, r._span_id, r._http_request, r._source_location,
     r._labels, r._trace_str, r._span_id_str, r._http_request_str,
     r._source_location_str, r._labels_str, r._msg_str >>

Overrides(r) ==
  <<r.labels, r.trace, r.span_id, r.http_request, r.source_location, r.resource>>

Emitted == pc = "emitted"

C3_LineIsJsonWithSevenKeys ==
  (Emitted /\ call.stack_info = None) =>
    LET r == Loads(line) IN
    /\ r.ok
    /\ r.v.t = "dict"
    /\ DictKeys(r.v) = SevenKeys

(***************************************************************************)
(* C4.  The labels of the line are the union of the default labels and     *)
(* the record's own, the record's value winning.                           *)
(***************************************************************************)
\* C4: the labels object of the line holds every key of the handler's
\* default labels and of the record's labels, with the record's value where
\* both have the key; it is {} when there are neither
C4_LabelsUnion ==
  Emitted => LabelsMemberIsUnion(line, ctor.labels, call.labels)

C4_Witness ==
  /\ Emitted
  /\ ctor.labels.t = "dict" /\ DictHas(ctor.labels, <<"b">>)
  /\ call.labels.t = "dict" /\ DictHas(call.labels, <<"b">>)
  /\ DictGet(call.labels, <<"b">>) # DictGet(ctor.labels, <<"b">>)
  /\ DictGet(MembersOf(line)[3][2], <<"b">>) = DictGet(call.labels, <<"b">>)

(***************************************************************************)
(* C5.  The filter run again on the record it enriched leaves every        *)
(* derived attribute as the first run set it.                              *)
(***************************************************************************)
\* C5: a second run of the filter on the same record, with no override
\* changed in between, leaves every derived attribute with the same value
C5_FilterIdempotent ==
  [][(pc = "filtered" /\ pc' = "filtered") => Derived(rec') = Derived(rec)]_vars

C5_Witness ==
  /\ pc = "filtered"
  /\ FilterRuns = 2
  /\ call.msg = Str(<<QUOTE>>)
  /\ rec._msg_str = Str(<<BSL, QUOTE>>)

(***************************************************************************)
(* C6.  A falsy message without exception information gives "" and the     *)
(* level name.  The template formatter still calls getMessage on such a    *)
(* record (Formatter.format sets record.message), so the host's message    *)
(* formatting is invoked; its text does not reach the line.                *)
(***************************************************************************)
FalsyMsgNoExc ==
  /\ Emitted
  /\ ~Truthy(call.msg)
  /\ call.exc_info = None
  /\ call.exc_text = None

MessageAndSeverity(text, message, levelname) ==
  LET members == MembersOf(text) IN
  /\ Len(members) >= 2
  /\ members[1] = <<KeyMessage, message>>
  /\ members[2] = <<KeySeverity, levelname>>

\* C6 as stated: for a record with a falsy message and no exception
\* information the message field is "", the severity is the level name, and
\* the host's message formatting has not run on the record
C6_EmptyMessageUnformattedAsClaimed ==
  FalsyMsgNoExc =>
    /\ MessageAndSeverity(line, Str(<<>>), call.levelname)
    /\ ~hasattr(rec, "message")

\* C6 amended: for such a record the message field is "", the severity is
\* the level name, and the text the host's message formatting made of the
\* message is on the record (record.message) but not in the line
C6_EmptyMessage ==
  FalsyMsgNoExc =>
    /\ MessageAndSeverity(line, Str(<<>>), call.levelname)
    /\ rec.message = Str(PyStr(call.msg))

C6_Witness ==
  /\ FalsyMsgNoExc
  /\ call.msg = PyInt(0)
  /\ rec.message = Str(<<"0">>)
  /\ MembersOf(line)[1] = <<KeyMessage, Str(<<>>)>>

(***************************************************************************)
(* C7.  Loading the module leaves the root logger with exactly one         *)
(* StructuredLogHandler, and a record is filtered, then formatted, then    *)
(* written.                                                                *)
(***************************************************************************)
FilteredThenFormattedThenWritten(t) ==
  /\ Len(t) >= 3
  /\ t[1] = "filter"
  /\ \A i \in 1..(Len(t) - 2) : t[i] = "filter"
  /\ t[Len(t) - 1] = "format"
  /\ t[Len(t)] = "write"

\* C7: once the module is loaded the root logger holds exactly one handler,
\* a StructuredLogHandler, whatever it held before, and whatever is written
\* for a record was written after the filter and then the formatter ran
C7_RootHandlerReplaced ==
  loaded =>
    /\ Len(handlers) = 1
    /\ handlers[1].cls = "StructuredLogHandler"
    /\ line # <<>> => FilteredThenFormattedThenWritten(trail)

C7_Witness ==
  /\ loaded
  /\ Len(prior) = 2
  /\ Emitted
  /\ line # <<>>

(***************************************************************************)
(* C8.  The source location: the override, else the record's fields that   *)
(* are set, else None, serialized as {}.                                   *)
(***************************************************************************)
SourceLocationFields ==
  { <<LineKey, "lineno">>, <<FileKey, "pathname">>, <<FunctionKey, "funcName">> }

SourceLocationAsClaimed(record, out) ==
  IF hasattr(record, "source_location") THEN out = record.source_location
  ELSE IF \A f \in SourceLocationFields : record[f[2]] = None THEN out = None
  ELSE /\ out.t = "dict"
       /\ DictKeys(out) =
            {f[1] : f \in {g \in SourceLocationFields : record[g[2]] # None}}
       /\ \A f \in SourceLocationFields :
            record[f[2]] # None => DictGet(out, f[1]) = record[f[2]]

\* C8: the record's source location is its source_location override when it
\* has one, else the mapping of line, file, function for the record fields
\* that are set, else None; the line carries it as a JSON object, {} for None
C8_SourceLocation ==
  Emitted =>
    LET out == rec._source_location
        v == ValueAfter(line, SegSourceLocation)
    IN /\ SourceLocationAsClaimed(call, out)
       /\ v.ok
       /\ IF out = None THEN v.v = Dict(<<>>) ELSE SameMapping(v.v, out)

C8_Witness ==
  /\ Emitted
  /\ ~hasattr(call, "source_location")
  /\ call.lineno = PyInt(0)
  /\ call.pathname = None
  /\ DictKeys(ValueAfter(line, SegSourceLocation).v) = {LineKey}

(***************************************************************************)
(* C9.  format clears the exception information after the message text is  *)
(* rendered and before the template is.                                    *)
(***************************************************************************)
ExcChar == "X"

\* C9: a record leaves format with exc_info and exc_text unset; the line
\* has exception text nowhere but in its message field; and the message of
\* a record with a non-empty message and an exception does carry the text
C9_ExceptionCleared ==
  Emitted =>
    LET message == MembersOf(line)[1][2].s IN
    /\ rec.exc_info = None
    /\ rec.exc_text = None
    /\ Count(line, ExcChar) = Count(message, ExcChar)
    /\ (Truthy(call.msg) /\ call.exc_info # None) => Count(message, ExcChar) = 1
    /\ ~Truthy(call.msg) => Count(line, ExcChar) = 0

C9_Witness ==
  /\ Emitted
  /\ call.exc_info = ExcInfo
  /\ call.exc_text = None
  /\ Truthy(call.msg)
  /\ Count(MembersOf(line)[1][2].s, ExcChar) = 1

(***************************************************************************)
(* C10.  Processing a record changes neither the handler nor the record's  *)
(* override attributes, and the labels of a line come from the defaults    *)
(* given at construction and that record's labels alone.                   *)
(***************************************************************************)
\* C10: no step after the handler is installed changes the handler (its
\* project id, its filter's project and default labels), no processing step
\* changes the record's override attributes, and the labels of every line
\* are the union of the constructor's labels and that record's own
C10_Stateless ==
  [][ /\ loaded => handlers' = handlers
      /\ loaded' =>
           /\ handlers'[1].project_id = ctor'.project_id
           /\ handlers'[1].filters[1].project = ctor'.project_id
           /\ handlers'[1].filters[1].default_labels = AsDict(ctor'.labels)
      /\ pc \in {"created", "filtered"} => Overrides(rec') = Overrides(call)
      /\ pc' = "emitted" =>
           LabelsMemberIsUnion(line', ctor'.labels, call'.labels) ]_vars

C10_Witness ==
  /\ Emitted
  /\ nRecords = 2
  /\ ctor.labels.t = "dict" /\ DictHas(ctor.labels, <<"b">>)
  /\ ~hasattr(call, "labels")
  /\ DictKeys(MembersOf(line)[3][2]) = {<<"b">>}

====
